---- MODULE Spec2Model ----
(***************************************************************************)
(* Model of openshift_adm_migrate_template_instances.py: the static        *)
(* method OpenShiftMigrateTemplateInstances.perform_migrations, called     *)
(* repeatedly on one caller-owned dict (Spec), and execute_module with     *)
(* its client calls and reports (SpecModule), run again against the same   *)
(* cluster (SpecRerun); and of the argument constraints main() of          *)
(* openshift_build.py (SpecBuild) and of openshift_process.py              *)
(* (SpecProcess) declare.                                                  *)
(*                                                                         *)
(* A Python dict is a record whose optional keys carry the value Missing   *)
(* when the key is not in the dict; d.get(k) turns Missing into None,      *)
(* d[k] raises KeyError on it.  Nested dicts that may be missing as a      *)
(* whole (status, ref) carry a has* flag.  The list returned by            *)
(* perform_migrations holds references to elements of ti_list, so it is    *)
(* a sequence of positions in ti_list: what a returned record contains is  *)
(* read through the live templateinstances; aliasing is kept.              *)
(***************************************************************************)
EXTENDS Integers, Sequences, FiniteSets, TLC

(* ---------------- bounds ---------------- *)
MaxRecords == 2     \* longest items list of a fetched TemplateInstanceList
MaxObjects == 2     \* status.objects entries in one fetched batch
MaxCalls == 2       \* perform_migrations calls made on the same dict
MaxInvocations == 2 \* runs of the module against the same cluster

(* ---------------- Python values ---------------- *)
None == "None"            \* what dict.get returns for an absent key
Missing == "<missing>"    \* the key is not in the dict
NoError == "ok"
KeyError == "KeyError"

Get(d, key) == IF d[key] = Missing THEN None ELSE d[key]

\* a table that keeps the stale Route group-version
transforms_StaleRoute ==
    [Build |-> "build.openshift.io/v1",
     BuildConfig |-> "build.openshift.io/v1",
     DeploymentConfig |-> "apps.openshift.io/v1",
     Route |-> "route.openshift.io/v1.Route"]

\* a table with an entry for a core kind
transforms_WithSecret ==
    [Build |-> "build.openshift.io/v1",
     BuildConfig |-> "build.openshift.io/v1",
     DeploymentConfig |-> "apps.openshift.io/v1",
     Route |-> "route.openshift.io/v1",
     Secret |-> "core/v1"]

\* a table without the Build entry
transforms_NoBuild ==
    [BuildConfig |-> "build.openshift.io/v1",
     DeploymentConfig |-> "apps.openshift.io/v1",
     Route |-> "route.openshift.io/v1"]

transforms ==
    [Build |-> "build.openshift.io/v1",
     BuildConfig |-> "build.openshift.io/v1",
     DeploymentConfig |-> "apps.openshift.io/v1",
     Route |-> "route.openshift.io/v1"]

(* ---------------- inputs ---------------- *)
\* obj["ref"] dicts: the kinds of the module's documentation (Secret,
\* Route, ...) with stale, canonical and absent apiVersion, and a ref
\* without kind
InputRefs ==
    { [kind |-> "Build", apiVersion |-> "v1"],
      [kind |-> "BuildConfig", apiVersion |-> "build.openshift.io/v1"],
      [kind |-> "DeploymentConfig", apiVersion |-> Missing],
      [kind |-> "DeploymentConfig", apiVersion |-> "v1"],
      [kind |-> "Route", apiVersion |-> "route.openshift.io/v1.Route"],
      [kind |-> "Route", apiVersion |-> "route.openshift.io/v1"],
      [kind |-> "Deployment", apiVersion |-> "apps/v1"],
      [kind |-> "Secret", apiVersion |-> "v1"],
      [kind |-> "Secret", apiVersion |-> Missing],
      [kind |-> Missing, apiVersion |-> "v1"] }

NoRef == [kind |-> Missing, apiVersion |-> Missing]

\* entries that carry kind and apiVersion as their own keys, without a
\* "ref" key
DirectObjects ==
    { [hasRef |-> FALSE, ref |-> NoRef,
       kind |-> "Route", apiVersion |-> "route.openshift.io/v1.Route"],
      [hasRef |-> FALSE, ref |-> NoRef,
       kind |-> "Secret", apiVersion |-> "v1"] }

\* entries of status.objects: a "ref" dict, no key at all, or kind and
\* apiVersion as direct keys
InputObjects ==
    { [hasRef |-> TRUE, ref |-> r, kind |-> Missing, apiVersion |-> Missing] :
      r \in InputRefs }
        \cup { [hasRef |-> FALSE, ref |-> NoRef,
                kind |-> Missing, apiVersion |-> Missing] }
        \cup DirectObjects

SeqsUpTo(S, n) == UNION { [1..k -> S] : k \in 0..n }

NoStatus == [hasObjects |-> FALSE, objects |-> << >>]

\* the shape of one TemplateInstance: without status, with a status
\* without objects, or with status.objects of n entries
ElemShapes ==
    { [hasStatus |-> FALSE, hasObjects |-> FALSE, n |-> 0],
      [hasStatus |-> TRUE, hasObjects |-> FALSE, n |-> 0] }
        \cup { [hasStatus |-> TRUE, hasObjects |-> TRUE, n |-> n] :
               n \in 0..MaxObjects }

RECURSIVE TotalObjects(_)
TotalObjects(shapes) ==
    IF Len(shapes) = 0 THEN 0
    ELSE Head(shapes).n + TotalObjects(Tail(shapes))

\* the batches' shapes: at most MaxRecords records holding at most
\* MaxObjects status.objects entries between them
BatchShapes ==
    { shapes \in SeqsUpTo(ElemShapes, MaxRecords) :
        TotalObjects(shapes) <= MaxObjects }

\* the records of the given shapes, their entries taken in order from flat
Fill(shapes, flat) ==
    [ e \in 1..Len(shapes) |->
        [hasStatus |-> shapes[e].hasStatus,
         status |->
            [hasObjects |-> shapes[e].hasObjects,
             objects |->
                SubSeq(flat,
                       TotalObjects(SubSeq(shapes, 1, e - 1)) + 1,
                       TotalObjects(SubSeq(shapes, 1, e))) ]] ]

\* what resource.get().to_dict() hands over: a TemplateInstanceList with
\* the given items (it has no status of its own), or the one
\* TemplateInstance itself
InputDict(its, isList) ==
    IF isList
    THEN [kind |-> "TemplateInstanceList", items |-> its,
          hasStatus |-> FALSE, status |-> NoStatus]
    ELSE [kind |-> "TemplateInstance", items |-> << >>,
          hasStatus |-> its[1].hasStatus, status |-> its[1].status]

(* ---------------- state ---------------- *)
VARIABLES
    templateinstances,   \* the caller's dict, as it stands now
    calls,               \* one entry per finished perform_migrations call:
                         \* the dict before and after, the returned list,
                         \* the error
    transforms_dict,     \* the module-level dict transforms, as it stands
    namespace,           \* self.params.get("namespace")
    check_mode,          \* self.check_mode
    cluster,             \* the TemplateInstances the API server stores
    pc,                  \* where execute_module stands
    ti_to_be_migrated,   \* execute_module's local of that name
    next_patch,          \* position of the patch loop in ti_to_be_migrated
    results,             \* execute_module's local results
    requests,            \* the client calls issued so far, in order
    reports,             \* the exit_json / fail_json calls made so far
    raised,              \* the exception that left execute_module, if any
    history,             \* the earlier runs of the module against this
                         \* cluster, as they ended
    params,              \* the names of the parameters a module entry point
                         \* was started with
    verdict              \* what the argument checks of that entry point said

modvars == << namespace, check_mode, cluster, pc, ti_to_be_migrated,
              next_patch, results, requests, reports, raised, history >>

argvars == << params, verdict >>

vars == << templateinstances, calls, transforms_dict, modvars, argvars >>

(* ---------------- perform_migrations ---------------- *)
\* the dict seen as an element of ti_list
AsElem(t) == [hasStatus |-> t.hasStatus, status |-> t.status]

\* kind == "TemplateInstanceList" and items or [templateinstances]
TiList(t) ==
    IF t.kind = "TemplateInstanceList" /\ Len(t.items) > 0
    THEN t.items
    ELSE << AsElem(t) >>

\* the loop working on a copy of the caller's dict
WriteBack_Copy(t, list) == t

\* the elements of ti_list are the objects of the caller's dict: a write
\* to ti_list[e] is a write to templateinstances
WriteBack(t, list) ==
    IF t.kind = "TemplateInstanceList" /\ Len(t.items) > 0
    THEN [t EXCEPT !.items = list]
    ELSE [t EXCEPT !.hasStatus = list[1].hasStatus, !.status = list[1].status]

\* the condition without the comparison of the stored apiVersion
NeedsTransform_AnyVersion(ref) == ref.kind \in DOMAIN transforms_dict

\* the condition of the inner if
NeedsTransform(ref) ==
    /\ ref.kind \in DOMAIN transforms_dict
    /\ Get(ref, "apiVersion") # transforms_dict[ref.kind]

\* the append without the rewrite
Transform_NoWrite(st, e, i) == [st EXCEPT !.out = Append(@, e)]

\* an element already in the list is not appended again
Transform_Once(st, e, i) ==
    [st EXCEPT
       !.list[e].status.objects[i].ref.apiVersion =
           transforms_dict[st.list[e].status.objects[i].ref.kind],
       !.out = IF \E j \in 1..Len(@) : @[j] = e THEN @ ELSE Append(@, e)]

\* the element is put at the front of the list
Transform_Prepend(st, e, i) ==
    [st EXCEPT
       !.list[e].status.objects[i].ref.apiVersion =
           transforms_dict[st.list[e].status.objects[i].ref.kind],
       !.out = << e >> \o @]

\* the ref dict replaced by one holding the apiVersion alone
Transform_ReplacesRef(st, e, i) ==
    [st EXCEPT
       !.list[e].status.objects[i].ref =
           [kind |-> Missing,
            apiVersion |->
                transforms_dict[st.list[e].status.objects[i].ref.kind]],
       !.out = Append(@, e)]

\* the rewrite without the append
Transform_NoAppend(st, e, i) ==
    [st EXCEPT
       !.list[e].status.objects[i].ref.apiVersion =
           transforms_dict[st.list[e].status.objects[i].ref.kind]]

\* the body of the inner if: rewrite entry i of element e in place and
\* append the element to ti_to_be_migrated
Transform(st, e, i) ==
    [st EXCEPT
       !.list[e].status.objects[i].ref.apiVersion =
           transforms_dict[st.list[e].status.objects[i].ref.kind],
       !.out = Append(@, e)]

\* the inner loop from entry i on; st = [list, out, err]
RECURSIVE MigrateObjects(_, _, _)
MigrateObjects(st, e, i) ==
    LET objects == st.list[e].status.objects
    IN  IF i > Len(objects) THEN st
        ELSE LET obj == objects[i]
             IN  IF ~obj.hasRef \/ obj.ref.kind = Missing
                 THEN [st EXCEPT !.err = KeyError]
                 ELSE IF NeedsTransform(obj.ref)
                 THEN MigrateObjects(Transform(st, e, i), e, i + 1)
                 ELSE MigrateObjects(st, e, i + 1)

\* the outer loop from element e on
RECURSIVE MigrateElems(_, _)
MigrateElems(st, e) ==
    IF e > Len(st.list) THEN st
    ELSE LET ti_elem == st.list[e]
         IN  IF ~ti_elem.hasStatus
             THEN [st EXCEPT !.err = KeyError]
             ELSE IF ti_elem.status.hasObjects
                     /\ Len(ti_elem.status.objects) > 0
             THEN LET st2 == MigrateObjects(st, e, 1)
                  IN  IF st2.err # NoError THEN st2
                      ELSE MigrateElems(st2, e + 1)
             ELSE MigrateElems(st, e + 1)

\* the whole call: the dict after it, the returned list, and whether it
\* raised
perform_migrations(t) ==
    LET st == MigrateElems([list |-> TiList(t), out |-> << >>,
                            err |-> NoError], 1)
    IN  [post |-> WriteBack(t, st.list),
         ti_to_be_migrated |-> st.out,
         err |-> st.err]

(* ---------------- calls of perform_migrations ---------------- *)
\* templateinstances = None
NoDict ==
    [kind |-> None, items |-> << >>, hasStatus |-> FALSE, status |-> NoStatus]

\* results = {"changed": False, "result": []}
NoResults == [changed |-> FALSE, result |-> << >>]

\* execute_module is not running
NoInvocation ==
    /\ namespace = None
    /\ check_mode = FALSE
    /\ cluster = << >>
    /\ pc = "idle"
    /\ ti_to_be_migrated = << >>
    /\ next_patch = 1
    /\ results = NoResults
    /\ requests = << >>
    /\ reports = << >>
    /\ raised = None
    /\ history = << >>

\* no entry point is checking arguments
NoArguments ==
    /\ params = {}
    /\ verdict = "idle"

Init ==
    /\ \E shapes \in BatchShapes :
         \E flat \in [1..TotalObjects(shapes) -> InputObjects] :
             \E isList \in (IF Len(shapes) = 1 THEN BOOLEAN ELSE {TRUE}) :
                 templateinstances = InputDict(Fill(shapes, flat), isList)
    /\ calls = << >>
    /\ transforms_dict = transforms
    /\ NoInvocation
    /\ NoArguments

\* one call of perform_migrations on the caller's dict
PerformMigrations ==
    /\ Len(calls) < MaxCalls
    /\ pc = "idle"
    /\ LET r == perform_migrations(templateinstances)
       IN  /\ templateinstances' = r.post
           /\ calls' = Append(calls,
                  [pre |-> templateinstances,
                   post |-> r.post,
                   ti_to_be_migrated |-> r.ti_to_be_migrated,
                   err |-> r.err])
    /\ UNCHANGED << transforms_dict, modvars, argvars >>

Next == PerformMigrations

Spec == Init /\ [][Next]_vars

(* ---------------- execute_module ---------------- *)
\* obj["ref"] dicts stored in the cluster: two stale mapped references,
\* a core one, and one without kind
ModuleRefs ==
    { [kind |-> "Build", apiVersion |-> "v1"],
      [kind |-> "Route", apiVersion |-> "route.openshift.io/v1.Route"],
      [kind |-> "Secret", apiVersion |-> "v1"],
      [kind |-> Missing, apiVersion |-> "v1"] }

ModuleObjects ==
    { [hasRef |-> TRUE, ref |-> r, kind |-> Missing, apiVersion |-> Missing] :
      r \in ModuleRefs }

\* the errors the client raises
ClientErrors == {"DynamicApiError", "Exception"}

NoElem == [hasStatus |-> FALSE, status |-> NoStatus]

NoMsg == [text |-> None, namespace |-> None, name |-> 0, error |-> None]

\* one client call: the operation, its arguments, what it returned and
\* the error it raised
GetRequest(ns, returned, error) ==
    [op |-> "get", namespace |-> ns, name |-> 0, body |-> NoElem,
     returned |-> returned, error |-> error]

PatchRequest(name, body, returned, error) ==
    [op |-> "patch", namespace |-> None, name |-> name, body |-> body,
     returned |-> returned, error |-> error]

\* self.exit_json(changed=..., result=...)
ExitReport(changed, result) ==
    [call |-> "exit_json", changed |-> changed, result |-> result,
     msg |-> NoMsg]

\* self.fail_json(msg=...)
FailReport(msg) ==
    [call |-> "fail_json", changed |-> FALSE, result |-> << >>, msg |-> msg]

\* "Failed to retrieve TemplateInstances in namespace '{0}': {1}"
RetrieveMsg(ns, error) ==
    [text |-> "Failed to retrieve TemplateInstances in namespace",
     namespace |-> ns, name |-> 0, error |-> error]

\* "Failed to migrate TemplateInstance {0} due to: {1}"
MigrateMsg(name, error) ==
    [text |-> "Failed to migrate TemplateInstance",
     namespace |-> None, name |-> name, error |-> error]

\* the records a list of ti_list positions stands for, as they are now in
\* the dict; a record's position in the fetched list is its name
RecordsAt(t, out) ==
    [ j \in 1..Len(out) |-> [name |-> out[j], elem |-> TiList(t)[out[j]]] ]

\* the server dropping the patch
PatchedCluster_Discarded(cl, name, body) == cl

\* the server applies the status of the patch body to the stored record
PatchedCluster(cl, name, body) ==
    [cl EXCEPT ![name] = [hasStatus |-> body.hasStatus, status |-> body.status]]

\* the patch body taken from the record as it was fetched
PatchBody_AsFetched(t, name) == TiList(calls[1].pre)[name]

\* the body of a patch call: the ti_elem of ti_to_be_migrated, which is the
\* record of the fetched dict as it is now
PatchBody(t, name) == TiList(t)[name]

\* the check-mode report without the changed flag
CheckModeReport_Unchanged(t, out) == ExitReport(FALSE, RecordsAt(t, out))

\* self.exit_json(**{"changed": True, "result": ti_to_be_migrated})
CheckModeReport(t, out) == ExitReport(TRUE, RecordsAt(t, out))

\* where execute_module goes after perform_migrations returned
PcAfterMigrate(out, check) ==
    IF Len(out) = 0 THEN "exit"
    ELSE IF check THEN "done" ELSE "patch"

\* the migration run after the fetch whether or not a namespace is given
PcAfterGet_AlwaysMigrate(ns) == "migrate"

\* where execute_module goes after a fetch that returned: the namespace
\* branch holds nothing but the fetch, the else branch goes on to migrate
PcAfterGet(ns) == IF ns # None THEN "exit" ELSE "migrate"

\* the patch loop skipping a failed patch unless it was the last
PcAfterPatch_SkipFailed(ok, last) ==
    IF ~last THEN "patch" ELSE IF ok THEN "exit" ELSE "done"

\* the patch loop going on after a failed patch
PcAfterPatch_Continue(ok, last) == IF last THEN "exit" ELSE "patch"

\* where execute_module goes after a patch call: fail_json ends the run
PcAfterPatch(ok, last) ==
    IF ~ok THEN "done" ELSE IF last THEN "exit" ELSE "patch"

\* results without the changed flag set after the loop
ResultsAfterPatch_NeverChanged(res, response, last) ==
    [res EXCEPT !.result = Append(@, response)]

\* results["result"].append(...), and results["changed"] = True once the
\* loop is through
ResultsAfterPatch(res, response, last) ==
    [res EXCEPT !.result = Append(@, response),
                !.changed = IF last THEN TRUE ELSE @]

InitModule ==
    /\ \E shapes \in BatchShapes :
         \E flat \in [1..TotalObjects(shapes) -> ModuleObjects] :
             cluster = Fill(shapes, flat)
    /\ namespace \in {None, "test"}
    /\ check_mode \in BOOLEAN
    /\ templateinstances = NoDict
    /\ calls = << >>
    /\ transforms_dict = transforms
    /\ pc = "start"
    /\ ti_to_be_migrated = << >>
    /\ next_patch = 1
    /\ results = NoResults
    /\ requests = << >>
    /\ reports = << >>
    /\ raised = None
    /\ history = << >>
    /\ NoArguments

\* namespace given: resource.get(namespace=namespace).to_dict() inside
\* try/except, then straight to the final exit_json
GetNamespace ==
    /\ pc = "start"
    /\ namespace # None
    /\ \/ /\ templateinstances' = InputDict(cluster, TRUE)
          /\ requests' = Append(requests, GetRequest(namespace, cluster, None))
          /\ pc' = PcAfterGet(namespace)
          /\ UNCHANGED reports
       \/ \E error \in ClientErrors :
          /\ requests' = Append(requests, GetRequest(namespace, << >>, error))
          /\ reports' = Append(reports,
                               FailReport(RetrieveMsg(namespace, error)))
          /\ pc' = "done"
          /\ UNCHANGED templateinstances
    /\ UNCHANGED << calls, transforms_dict, namespace, check_mode, cluster,
                    ti_to_be_migrated, next_patch, results, raised,
                    history, argvars >>

\* no namespace: resource.get().to_dict(), outside any try
GetAll ==
    /\ pc = "start"
    /\ namespace = None
    /\ \/ /\ templateinstances' = InputDict(cluster, TRUE)
          /\ requests' = Append(requests, GetRequest(None, cluster, None))
          /\ pc' = PcAfterGet(namespace)
          /\ UNCHANGED raised
       \/ \E error \in ClientErrors :
          /\ requests' = Append(requests, GetRequest(None, << >>, error))
          /\ raised' = error
          /\ pc' = "done"
          /\ UNCHANGED templateinstances
    /\ UNCHANGED << calls, transforms_dict, namespace, check_mode, cluster,
                    ti_to_be_migrated, next_patch, results, reports,
                    history, argvars >>

\* ti_to_be_migrated = self.perform_migrations(templateinstances) and the
\* two ifs after it
Migrate ==
    /\ pc = "migrate"
    /\ LET r == perform_migrations(templateinstances)
       IN  /\ templateinstances' = r.post
           /\ calls' = Append(calls,
                  [pre |-> templateinstances,
                   post |-> r.post,
                   ti_to_be_migrated |-> r.ti_to_be_migrated,
                   err |-> r.err])
           /\ IF r.err # NoError
              THEN /\ raised' = r.err
                   /\ pc' = "done"
                   /\ UNCHANGED << ti_to_be_migrated, reports >>
              ELSE /\ ti_to_be_migrated' = r.ti_to_be_migrated
                   /\ pc' = PcAfterMigrate(r.ti_to_be_migrated, check_mode)
                   /\ reports' =
                        IF Len(r.ti_to_be_migrated) > 0 /\ check_mode
                        THEN Append(reports,
                                    CheckModeReport(r.post,
                                                    r.ti_to_be_migrated))
                        ELSE reports
                   /\ UNCHANGED raised
    /\ UNCHANGED << transforms_dict, namespace, check_mode, cluster,
                    next_patch, results, requests,
                    history, argvars >>

\* one round of the patch loop: patch_template_instance(resource, ti_elem)
Patch ==
    /\ pc = "patch"
    /\ next_patch <= Len(ti_to_be_migrated)
    /\ LET name == ti_to_be_migrated[next_patch]
           body == PatchBody(templateinstances, name)
           last == next_patch = Len(ti_to_be_migrated)
       IN  \/ /\ cluster' = PatchedCluster(cluster, name, body)
              /\ requests' = Append(requests,
                    PatchRequest(name, body, << cluster'[name] >>, None))
              /\ results' = ResultsAfterPatch(results,
                    [name |-> name, elem |-> cluster'[name]], last)
              /\ pc' = PcAfterPatch(TRUE, last)
              /\ UNCHANGED reports
           \/ /\ requests' = Append(requests,
                    PatchRequest(name, body, << >>, "Exception"))
              /\ reports' = Append(reports,
                    FailReport(MigrateMsg(name, "Exception")))
              /\ pc' = PcAfterPatch(FALSE, last)
              /\ UNCHANGED << cluster, results >>
    /\ next_patch' = next_patch + 1
    /\ UNCHANGED << templateinstances, calls, transforms_dict, namespace,
                    check_mode, ti_to_be_migrated, raised,
                    history, argvars >>

\* the final self.exit_json(**results)
ExitJson ==
    /\ pc = "exit"
    /\ reports' = Append(reports, ExitReport(results.changed, results.result))
    /\ pc' = "done"
    /\ UNCHANGED << templateinstances, calls, transforms_dict, namespace,
                    check_mode, cluster, ti_to_be_migrated, next_patch,
                    results, requests, raised,
                    history, argvars >>

NextModule == GetNamespace \/ GetAll \/ Migrate \/ Patch \/ ExitJson

SpecModule == InitModule /\ [][NextModule]_vars

(* ---------------- the module run again ---------------- *)
\* how the run that is under way stands: its parameters, its client calls,
\* its reports and the exception that left it
ThisRun ==
    [namespace |-> namespace, check_mode |-> check_mode, pc |-> pc,
     requests |-> requests, reports |-> reports, raised |-> raised]

\* the same task once more: main() builds a new module object from the
\* same parameters, with locals of its own, against the cluster the runs
\* before it left; nothing of a run is kept for the next
Reinvoke ==
    /\ pc = "done"
    /\ Len(history) + 1 < MaxInvocations
    /\ history' = Append(history, ThisRun)
    /\ templateinstances' = NoDict
    /\ calls' = << >>
    /\ pc' = "start"
    /\ ti_to_be_migrated' = << >>
    /\ next_patch' = 1
    /\ results' = NoResults
    /\ requests' = << >>
    /\ reports' = << >>
    /\ raised' = None
    /\ UNCHANGED << transforms_dict, namespace, check_mode, cluster,
                    argvars >>

NextRerun == NextModule \/ Reinvoke

SpecRerun == InitModule /\ [][NextRerun]_vars

(* ---------------- openshift_build: main ---------------- *)
\* options of the argument_spec the check is run on
BuildParams ==
    {"state", "commit", "build_name", "build_config_name", "namespace",
     "incremental", "no_cache"}

\* namespace=dict(type="str", required=True)
BuildRequired == {"namespace"}

\* mutually_exclusive = [("build_name", "build_config_name")]
BuildMutuallyExclusive == { {"build_name", "build_config_name"} }

\* no required_one_of handed to the module class
BuildRequiredOneOf_None == {}

\* required_one_of=[["build_name", "build_config_name"]]
BuildRequiredOneOf == { {"build_name", "build_config_name"} }

\* at most one parameter of each term is given
check_mutually_exclusive(terms, given) ==
    \A t \in terms : Cardinality(t \cap given) <= 1

\* every required parameter is given
check_required_arguments(required, given) == required \subseteq given

\* at least one parameter of each term is given
check_required_one_of(terms, given) ==
    \A t \in terms : t \cap given # {}

\* the module class checking the parameters against what main() declares
BuildVerdict(given) ==
    IF ~check_mutually_exclusive(BuildMutuallyExclusive, given)
    THEN "mutually_exclusive"
    ELSE IF ~check_required_arguments(BuildRequired, given)
    THEN "missing_required"
    ELSE IF ~check_required_one_of(BuildRequiredOneOf, given)
    THEN "required_one_of"
    ELSE "accepted"

InitBuild ==
    /\ params \in SUBSET BuildParams
    /\ verdict = "pending"
    /\ templateinstances = NoDict
    /\ calls = << >>
    /\ transforms_dict = transforms
    /\ NoInvocation

\* main(): OpenShiftBuilds(argument_spec=..., mutually_exclusive=...,
\* required_one_of=...)
BuildMain ==
    /\ verdict = "pending"
    /\ verdict' = BuildVerdict(params)
    /\ UNCHANGED << params, templateinstances, calls, transforms_dict,
                    modvars >>

NextBuild == BuildMain

SpecBuild == InitBuild /\ [][NextBuild]_vars

(* ---------------- openshift_process: main ---------------- *)
\* options of argspec() the check is run on
ProcessParams ==
    {"name", "namespace", "namespace_target", "resource_definition", "src",
     "parameters", "parameter_file"}

\* no option of argspec() carries required=True
ProcessRequired == {}

\* main() hands no mutually_exclusive to the module class
ProcessMutuallyExclusive == {}

\* main() hands no required_by to the module class
ProcessRequiredBy == {}

\* a given key brings every parameter it requires
check_required_by(requirements, given) ==
    \A r \in requirements : r[1] \in given => r[2] \subseteq given

\* the module class checking the parameters against what main() declares
ProcessVerdict(given) ==
    IF ~check_mutually_exclusive(ProcessMutuallyExclusive, given)
    THEN "mutually_exclusive"
    ELSE IF ~check_required_arguments(ProcessRequired, given)
    THEN "missing_required"
    ELSE IF ~check_required_by(ProcessRequiredBy, given)
    THEN "required_by"
    ELSE "accepted"

InitProcess ==
    /\ params \in SUBSET ProcessParams
    /\ verdict = "pending"
    /\ templateinstances = NoDict
    /\ calls = << >>
    /\ transforms_dict = transforms
    /\ NoInvocation

\* main(): OpenShiftProcess(argument_spec=argspec(), supports_check_mode=True)
ProcessMain ==
    /\ verdict = "pending"
    /\ verdict' = ProcessVerdict(params)
    /\ UNCHANGED << params, templateinstances, calls, transforms_dict,
                    modvars >>

NextProcess == ProcessMain

SpecProcess == InitProcess /\ [][NextProcess]_vars

(* ---------------- vocabulary of the properties ---------------- *)
\* the status.objects entries of a record; none when the path is absent
Objects(el) ==
    IF el.hasStatus /\ el.status.hasObjects THEN el.status.objects ELSE << >>

\* the record is a member of the returned list
Returned(out, e) == \E j \in 1..Len(out) : out[j] = e

Occurrences(out, e) == Cardinality({ j \in 1..Len(out) : out[j] = e })

MappedKinds == {"Build", "BuildConfig", "DeploymentConfig", "Route"}

Canonical(kind) ==
    CASE kind \in {"Build", "BuildConfig"} -> "build.openshift.io/v1"
      [] kind = "DeploymentConfig" -> "apps.openshift.io/v1"
      [] kind = "Route" -> "route.openshift.io/v1"

\* the reference is of a mapped kind and not on its canonical version
\* (an absent apiVersion is not canonical)
Stale(ref) == ref.kind \in MappedKinds /\ ref.apiVersion # Canonical(ref.kind)

\* the positions of the record's references whose apiVersion the call changed
Rewritten(c, e) ==
    { i \in 1..Len(Objects(TiList(c.pre)[e])) :
        Objects(TiList(c.pre)[e])[i].ref.apiVersion
            # Objects(TiList(c.post)[e])[i].ref.apiVersion }

StalePositions(el) == { i \in 1..Len(Objects(el)) : Stale(Objects(el)[i].ref) }

\* the record exposes no status.objects entries
LacksObjects(el) == Len(Objects(el)) = 0

\* every status.objects entry of the record has a ref with a kind
WellFormedRefs(el) ==
    \A i \in 1..Len(Objects(el)) :
        Objects(el)[i].hasRef /\ Objects(el)[i].ref.kind # Missing

\* the call was given one or more TemplateInstance records
HasRecords(t) == t.kind = "TemplateInstance" \/ Len(t.items) > 0

(* ---------------- properties ---------------- *)
\* C1: when perform_migrations returns, a record is in the returned list
\* if and only if the call changed the apiVersion of one of its
\* references, which is if and only if one of its references had a mapped
\* kind and a stored apiVersion different from the canonical one before
\* the call.
C1_Selectivity ==
    \A k \in 1..Len(calls) :
        calls[k].err = NoError =>
            \A e \in 1..Len(TiList(calls[k].pre)) :
                /\ Returned(calls[k].ti_to_be_migrated, e)
                       <=> Rewritten(calls[k], e) # {}
                /\ Rewritten(calls[k], e) # {}
                       <=> StalePositions(TiList(calls[k].pre)[e]) # {}

\* a returned call on two records of which exactly the second was stale
C1_Witness ==
    \E k \in 1..Len(calls) :
        /\ calls[k].err = NoError
        /\ Len(TiList(calls[k].pre)) = 2
        /\ StalePositions(TiList(calls[k].pre)[1]) = {}
        /\ Len(Objects(TiList(calls[k].pre)[1])) > 0
        /\ StalePositions(TiList(calls[k].pre)[2]) # {}
        /\ Returned(calls[k].ti_to_be_migrated, 2)
        /\ ~Returned(calls[k].ti_to_be_migrated, 1)

\* C2: after perform_migrations returns, every reference of kind Build,
\* BuildConfig, DeploymentConfig or Route carries the canonical apiVersion
\* of its kind; a mapped reference whose apiVersion was absent before the
\* call was rewritten and its record is in the returned list.
C2_AllCanonical ==
    \A k \in 1..Len(calls) :
        calls[k].err = NoError =>
            \A e \in 1..Len(TiList(calls[k].post)) :
                \A i \in 1..Len(Objects(TiList(calls[k].post)[e])) :
                    LET before == Objects(TiList(calls[k].pre)[e])[i].ref
                        after == Objects(TiList(calls[k].post)[e])[i].ref
                    IN  /\ after.kind \in MappedKinds
                            => after.apiVersion = Canonical(after.kind)
                        /\ (before.kind \in MappedKinds
                              /\ before.apiVersion = Missing)
                            => /\ i \in Rewritten(calls[k], e)
                               /\ Returned(calls[k].ti_to_be_migrated, e)

\* a returned call that met a stale Route and a mapped reference without
\* apiVersion
C2_Witness ==
    \E k \in 1..Len(calls) :
        /\ calls[k].err = NoError
        /\ \E e \in 1..Len(TiList(calls[k].pre)) :
             \E i, j \in 1..Len(Objects(TiList(calls[k].pre)[e])) :
                 LET refs == Objects(TiList(calls[k].pre)[e])
                 IN  /\ refs[i].ref.kind = "DeploymentConfig"
                     /\ refs[i].ref.apiVersion = Missing
                     /\ refs[j].ref.kind = "Route"
                     /\ refs[j].ref.apiVersion = "route.openshift.io/v1.Route"
                     /\ Objects(TiList(calls[k].post)[e])[i].ref.apiVersion
                            = "apps.openshift.io/v1"
                     /\ Objects(TiList(calls[k].post)[e])[j].ref.apiVersion
                            = "route.openshift.io/v1"

\* C3: each record occurs at most once in the list perform_migrations
\* returns, however many of its references were rewritten.
C3_AtMostOnce ==
    \A k \in 1..Len(calls) :
        calls[k].err = NoError =>
            \A e \in 1..Len(TiList(calls[k].pre)) :
                Occurrences(calls[k].ti_to_be_migrated, e) <= 1

C5_UnmappedUntouched ==
    \A k \in 1..Len(calls) :
        \A e \in 1..Len(TiList(calls[k].pre)) :
            LET before == Objects(TiList(calls[k].pre)[e])
                after == Objects(TiList(calls[k].post)[e])
            IN  /\ Len(after) = Len(before)
                /\ \A i \in 1..Len(before) :
                       before[i].ref.kind \notin MappedKinds
                           => after[i] = before[i]
                /\ (\A i \in 1..Len(before) :
                        before[i].ref.kind \notin MappedKinds)
                       => ~Returned(calls[k].ti_to_be_migrated, e)

\* a returned call that rewrote a stale reference of a record that also
\* holds a Secret reference
C5_Witness ==
    \E k \in 1..Len(calls) :
        /\ calls[k].err = NoError
        /\ \E e \in 1..Len(TiList(calls[k].pre)) :
               /\ Returned(calls[k].ti_to_be_migrated, e)
               /\ Rewritten(calls[k], e) # {}
               /\ \E i \in 1..Len(Objects(TiList(calls[k].pre)[e])) :
                      /\ Objects(TiList(calls[k].pre)[e])[i].ref.kind = "Secret"
                      /\ Objects(TiList(calls[k].post)[e])[i]
                             = Objects(TiList(calls[k].pre)[e])[i]

\* C6: the returned records are in the order of the input: an occurrence
\* of a record that is earlier in the input is earlier in the returned
\* list.
C6_OrderPreserved ==
    \A k \in 1..Len(calls) :
        calls[k].err = NoError =>
            \A j1, j2 \in 1..Len(calls[k].ti_to_be_migrated) :
                calls[k].ti_to_be_migrated[j1] < calls[k].ti_to_be_migrated[j2]
                    => j1 < j2

\* a returned call that returned two different records
C6_Witness ==
    \E k \in 1..Len(calls) :
        /\ calls[k].err = NoError
        /\ Returned(calls[k].ti_to_be_migrated, 1)
        /\ Returned(calls[k].ti_to_be_migrated, 2)

\* C7: a call on the records as a returned call left them returns the
\* empty list and rewrites nothing.
C7_Idempotent ==
    \A k \in 1..Len(calls) :
        (k > 1 /\ calls[k - 1].err = NoError) =>
            /\ calls[k].pre = calls[k - 1].post
            /\ calls[k].err = NoError
            /\ calls[k].ti_to_be_migrated = << >>
            /\ calls[k].post = calls[k].pre

\* a second call after a first one that rewrote a reference
C7_Witness ==
    /\ Len(calls) >= 2
    /\ calls[1].err = NoError
    /\ Len(calls[1].ti_to_be_migrated) > 0
    /\ calls[1].post # calls[1].pre
    /\ calls[2].ti_to_be_migrated = << >>

\* C8 as stated: two calls in a row on the same dict return the same list.
C8_SameOutputTwice ==
    \A k \in 1..Len(calls) :
        (k > 1 /\ calls[k - 1].err = NoError /\ calls[k].err = NoError) =>
            calls[k].ti_to_be_migrated = calls[k - 1].ti_to_be_migrated

\* C8 amended: the second of two returned calls in a row on the same dict
\* returns the same list as the first if and only if no record had a
\* stale mapped reference before the first call; the first call rewrites
\* the dict it was given, so the second returns the empty list.
C8_SameOutputIffNothingStale ==
    \A k \in 1..Len(calls) :
        (k > 1 /\ calls[k - 1].err = NoError /\ calls[k].err = NoError) =>
            /\ calls[k].ti_to_be_migrated = calls[k - 1].ti_to_be_migrated
                   <=> \A e \in 1..Len(TiList(calls[k - 1].pre)) :
                           StalePositions(TiList(calls[k - 1].pre)[e]) = {}
            /\ \A e \in 1..Len(TiList(calls[k].pre)) :
                   StalePositions(TiList(calls[k].pre)[e]) = {}

\* two returned calls in a row, the first of which returned a record
C8_Witness ==
    /\ Len(calls) >= 2
    /\ calls[1].err = NoError
    /\ calls[2].err = NoError
    /\ Len(calls[1].ti_to_be_migrated) > 0
    /\ calls[2].ti_to_be_migrated # calls[1].ti_to_be_migrated

\* C9: a record without status, with a status without objects or with an
\* empty objects list counts as having no references: a call on records
\* whose references are all well formed returns without an error, and such
\* a record is not in the returned list.
C9_MissingPathIsNoReferences ==
    \A k \in 1..Len(calls) :
        (/\ HasRecords(calls[k].pre)
         /\ \A e \in 1..Len(TiList(calls[k].pre)) :
                WellFormedRefs(TiList(calls[k].pre)[e])) =>
            /\ calls[k].err = NoError
            /\ \A e \in 1..Len(TiList(calls[k].pre)) :
                   LacksObjects(TiList(calls[k].pre)[e])
                       => ~Returned(calls[k].ti_to_be_migrated, e)

\* C10: a status.objects entry without kind or without ref is skipped: a
\* call on records that all have a status returns without an error, such
\* an entry is left as it was, and every well-formed reference of the
\* batch is on its canonical version afterwards.
C10_MalformedReferenceSkipped ==
    \A k \in 1..Len(calls) :
        (/\ HasRecords(calls[k].pre)
         /\ \A e \in 1..Len(TiList(calls[k].pre)) :
                TiList(calls[k].pre)[e].hasStatus) =>
            /\ calls[k].err = NoError
            /\ \A e \in 1..Len(TiList(calls[k].pre)) :
                   \A i \in 1..Len(Objects(TiList(calls[k].pre)[e])) :
                       ~Stale(Objects(TiList(calls[k].post)[e])[i].ref)

\* the objects of the scenario, as direct keys and under "ref"
ScenarioDirect ==
    << [hasRef |-> FALSE, ref |-> NoRef,
        kind |-> "Route", apiVersion |-> "route.openshift.io/v1.Route"],
       [hasRef |-> FALSE, ref |-> NoRef,
        kind |-> "Secret", apiVersion |-> "v1"] >>

ScenarioRef ==
    << [hasRef |-> TRUE,
        ref |-> [kind |-> "Route",
                 apiVersion |-> "route.openshift.io/v1.Route"],
        kind |-> Missing, apiVersion |-> Missing],
       [hasRef |-> TRUE,
        ref |-> [kind |-> "Secret", apiVersion |-> "v1"],
        kind |-> Missing, apiVersion |-> Missing] >>

\* the call was given exactly one record, with these status.objects
OneRecordWith(t, objects) ==
    /\ Len(TiList(t)) = 1
    /\ TiList(t)[1].hasStatus
    /\ TiList(t)[1].status.hasObjects
    /\ TiList(t)[1].status.objects = objects

\* C18 as stated: kind and apiVersion are direct fields of the entry: on
\* one record with status.objects = [{kind: Route, apiVersion:
\* route.openshift.io/v1.Route}, {kind: Secret, apiVersion: v1}] the call
\* returns that record once, the Route entry's apiVersion is
\* route.openshift.io/v1 and the Secret entry is unchanged.
C18_DirectFieldsScenario ==
    \A k \in 1..Len(calls) :
        OneRecordWith(calls[k].pre, ScenarioDirect) =>
            /\ calls[k].err = NoError
            /\ calls[k].ti_to_be_migrated = << 1 >>
            /\ Objects(TiList(calls[k].post)[1])[1].apiVersion
                   = "route.openshift.io/v1"
            /\ Objects(TiList(calls[k].post)[1])[2] = ScenarioDirect[2]

\* C18 amended: kind and apiVersion are read from the "ref" dict of the
\* entry: on one record with status.objects = [{ref: {kind: Route,
\* apiVersion: route.openshift.io/v1.Route}}, {ref: {kind: Secret,
\* apiVersion: v1}}] the call returns that record once, the Route
\* reference's apiVersion is route.openshift.io/v1 and the Secret entry is
\* unchanged.
C18_RefFieldsScenario ==
    \A k \in 1..Len(calls) :
        OneRecordWith(calls[k].pre, ScenarioRef) =>
            /\ calls[k].err = NoError
            /\ calls[k].ti_to_be_migrated = << 1 >>
            /\ Objects(TiList(calls[k].post)[1])[1]
                   = [ScenarioRef[1] EXCEPT
                        !.ref.apiVersion = "route.openshift.io/v1"]
            /\ Objects(TiList(calls[k].post)[1])[2] = ScenarioRef[2]

\* a finished call on the scenario's record
C18_Witness ==
    \E k \in 1..Len(calls) :
        /\ OneRecordWith(calls[k].pre, ScenarioRef)
        /\ Len(calls[k].ti_to_be_migrated) = 1

\* C19: the lookup table maps exactly Build and BuildConfig to
\* build.openshift.io/v1, DeploymentConfig to apps.openshift.io/v1 and
\* Route to route.openshift.io/v1, has no entry for any other kind, and is
\* that same table before and after every call of perform_migrations.
C19_TransformsFixed ==
    /\ DOMAIN transforms_dict
           = {"Build", "BuildConfig", "DeploymentConfig", "Route"}
    /\ transforms_dict["Build"] = "build.openshift.io/v1"
    /\ transforms_dict["BuildConfig"] = "build.openshift.io/v1"
    /\ transforms_dict["DeploymentConfig"] = "apps.openshift.io/v1"
    /\ transforms_dict["Route"] = "route.openshift.io/v1"
    /\ \A kind \in {"Secret", "Pod", "Deployment"} :
           kind \notin DOMAIN transforms_dict

\* two finished calls, the first of which rewrote a reference
C19_Witness ==
    /\ Len(calls) >= 2
    /\ Len(calls[1].ti_to_be_migrated) > 0
    /\ calls[1].post # calls[1].pre
    /\ "Route" \in DOMAIN transforms_dict

\* C25: a call of perform_migrations leaves a record without a stale
\* mapped reference exactly as it was, and changes nothing in the other
\* records but the apiVersion of references of a mapped kind, which it
\* sets to the canonical value: the records, their number and order, the
\* references of each record, their number and order, and every
\* reference's kind and other fields are as before the call.
C25_FrameOfMigrate ==
    \A k \in 1..Len(calls) :
        LET pre == TiList(calls[k].pre)
            post == TiList(calls[k].post)
        IN  /\ calls[k].post.kind = calls[k].pre.kind
            /\ Len(calls[k].post.items) = Len(calls[k].pre.items)
            /\ Len(post) = Len(pre)
            /\ \A e \in 1..Len(pre) :
                   /\ post[e].hasStatus = pre[e].hasStatus
                   /\ post[e].status.hasObjects = pre[e].status.hasObjects
                   /\ Len(post[e].status.objects)
                          = Len(pre[e].status.objects)
                   /\ \A i \in 1..Len(pre[e].status.objects) :
                          LET a == pre[e].status.objects[i]
                              b == post[e].status.objects[i]
                          IN  /\ b.hasRef = a.hasRef
                              /\ b.kind = a.kind
                              /\ b.apiVersion = a.apiVersion
                              /\ b.ref.kind = a.ref.kind
                              /\ b.ref.apiVersion # a.ref.apiVersion =>
                                     /\ a.ref.kind \in MappedKinds
                                     /\ b.ref.apiVersion
                                            = Canonical(a.ref.kind)
                   /\ StalePositions(pre[e]) = {} => post[e] = pre[e]

\* a call that rewrote one record and left another record with references
\* as it was
C25_Witness ==
    \E k \in 1..Len(calls) :
        \E e1, e2 \in 1..Len(TiList(calls[k].pre)) :
            /\ e1 # e2
            /\ Rewritten(calls[k], e1) # {}
            /\ Len(Objects(TiList(calls[k].pre)[e2])) > 0
            /\ TiList(calls[k].post)[e2] = TiList(calls[k].pre)[e2]

\* C26 as stated: perform_migrations works on a copy of its own: the
\* caller's dict is after every call what it was before it, and no
\* client call is made.
C26_CallerDataUntouched ==
    /\ \A k \in 1..Len(calls) : calls[k].post = calls[k].pre
    /\ requests = << >>

\* C26 amended: perform_migrations works on the caller's dict itself: a
\* call that returns a non-empty list has changed the caller's dict, every
\* returned record is a record of the caller's dict that the call rewrote,
\* a call that returns the empty list leaves the caller's dict as it was,
\* the next call starts from the dict the call left, and no client call is
\* made.
C26_InPlaceUpdate ==
    /\ \A k \in 1..Len(calls) :
           /\ calls[k].err = NoError =>
                  /\ calls[k].post # calls[k].pre
                         <=> Len(calls[k].ti_to_be_migrated) > 0
                  /\ \A e \in 1..Len(TiList(calls[k].pre)) :
                         Returned(calls[k].ti_to_be_migrated, e)
                             <=> Rewritten(calls[k], e) # {}
           /\ k < Len(calls) => calls[k + 1].pre = calls[k].post
           /\ k = Len(calls) => templateinstances = calls[k].post
    /\ requests = << >>

\* one call that returned a record and left the caller's dict changed
C26_Witness ==
    /\ Len(calls) = 1
    /\ calls[1].err = NoError
    /\ Len(calls[1].ti_to_be_migrated) > 0
    /\ templateinstances = calls[1].post
    /\ templateinstances # calls[1].pre

(* ---------------- properties of execute_module ---------------- *)
IsPatch(q) == q.op = "patch"

PatchRequests == SelectSeq(requests, IsPatch)

\* the fetch was issued and returned
FetchOk ==
    /\ Len(requests) >= 1
    /\ requests[1].op = "get"
    /\ requests[1].error = None

\* the invocation ended in one exit_json and nothing else
Succeeded ==
    /\ pc = "done"
    /\ raised = None
    /\ Len(reports) = 1
    /\ reports[1].call = "exit_json"

\* the candidate set perform_migrations computed in this invocation
Candidates ==
    IF Len(calls) = 0 THEN << >>
    ELSE RecordsAt(calls[1].post, calls[1].ti_to_be_migrated)

\* every fetched record has a status and well-formed references
WellFormedBatch(items) ==
    \A e \in 1..Len(items) : items[e].hasStatus /\ WellFormedRefs(items[e])

\* C11: a fetched TemplateInstanceList with an empty items list is
\* accepted: perform_migrations returns the empty list without an error,
\* and the invocation reports changed=false with an empty result and
\* issues no patch.
C11_EmptyBatchAccepted ==
    (/\ namespace = None
     /\ FetchOk
     /\ Len(requests[1].returned) = 0
     /\ pc = "done") =>
        /\ Len(calls) = 1
        /\ calls[1].err = NoError
        /\ calls[1].ti_to_be_migrated = << >>
        /\ raised = None
        /\ reports = << ExitReport(FALSE, << >>) >>
        /\ Len(PatchRequests) = 0

\* C12 as stated: in check mode no patch call is ever issued, the
\* cluster's records stay as fetched, and a successful invocation that ran
\* perform_migrations reports its candidate set as result with
\* changed=true.
C12_CheckModeChangedTrue ==
    check_mode =>
        /\ Len(PatchRequests) = 0
        /\ FetchOk => cluster = requests[1].returned
        /\ (Succeeded /\ namespace = None) =>
               /\ reports[1].result = Candidates
               /\ reports[1].changed = TRUE

\* C12 amended: in check mode no patch call is ever issued, the cluster's
\* records stay as fetched, and a successful invocation that ran
\* perform_migrations reports its candidate set as result, with
\* changed=true when that set is not empty and changed=false when it is
\* empty.
C12_CheckModeNoPatch ==
    check_mode =>
        /\ Len(PatchRequests) = 0
        /\ FetchOk => cluster = requests[1].returned
        /\ (Succeeded /\ namespace = None) =>
               /\ Len(calls) = 1
               /\ reports[1].result = Candidates
               /\ reports[1].changed = (Len(Candidates) > 0)

\* a check-mode invocation that reported a candidate
C12_Witness ==
    /\ check_mode
    /\ Succeeded
    /\ reports[1].changed
    /\ Len(reports[1].result) > 0
    /\ \E e \in 1..Len(cluster) : StalePositions(cluster[e]) # {}

\* C13: without check mode and without namespace, a successful invocation
\* reports changed=true exactly when perform_migrations returned a
\* non-empty list, and an empty result with changed=false when it
\* returned the empty list.
C13_ChangedIffMigrated ==
    (~check_mode /\ namespace = None /\ Succeeded) =>
        /\ Len(calls) = 1
        /\ calls[1].err = NoError
        /\ reports[1].changed <=> Len(calls[1].ti_to_be_migrated) > 0
        /\ Len(calls[1].ti_to_be_migrated) = 0 => reports[1].result = << >>

\* an invocation that patched and reported changed=true
C13_Witness ==
    /\ ~check_mode
    /\ namespace = None
    /\ Succeeded
    /\ reports[1].changed
    /\ Len(PatchRequests) > 0

\* C14: without check mode and with no failing patch, every
\* TemplateInstance perform_migrations changed is patched exactly once,
\* no other TemplateInstance is patched, and the reported result is the
\* sequence of the patch responses in the order of the changed records.
C14_EachChangedPatchedOnce ==
    (~check_mode /\ namespace = None /\ Succeeded) =>
        /\ \A e \in 1..Len(TiList(calls[1].pre)) :
               Cardinality({ j \in 1..Len(PatchRequests) :
                               PatchRequests[j].name = e })
                   = IF Rewritten(calls[1], e) # {} THEN 1 ELSE 0
        /\ Len(reports[1].result) = Len(PatchRequests)
        /\ \A j \in 1..Len(PatchRequests) :
               /\ reports[1].result[j].name = PatchRequests[j].name
               /\ reports[1].result[j].elem = PatchRequests[j].returned[1]
        /\ \A j1, j2 \in 1..Len(PatchRequests) :
               j1 < j2 => PatchRequests[j1].name < PatchRequests[j2].name

\* C15: with a namespace given, the TemplateInstances fetched from it that
\* hold a stale mapped reference are rewritten, patched unless in check
\* mode, and returned in result with changed=true.
C15_NamespaceMigrates ==
    (/\ namespace # None
     /\ FetchOk
     /\ WellFormedBatch(requests[1].returned)
     /\ \E e \in 1..Len(requests[1].returned) :
            StalePositions(requests[1].returned[e]) # {}
     /\ pc = "done"
     /\ \A j \in 1..Len(requests) : requests[j].error = None) =>
        /\ Len(calls) = 1
        /\ Len(reports) = 1
        /\ reports[1].call = "exit_json"
        /\ reports[1].changed
        /\ Len(reports[1].result) > 0
        /\ ~check_mode =>
               /\ Len(PatchRequests) > 0
               /\ \A e \in 1..Len(cluster) : StalePositions(cluster[e]) = {}

\* C16: a failed fetch is fatal with or without namespace: no patch call,
\* no migration, and the invocation ends in one fail_json whose message
\* carries the namespace and the client's error.
C16_FetchFailureReported ==
    (Len(requests) >= 1 /\ requests[1].error # None) =>
        /\ Len(requests) = 1
        /\ Len(calls) = 0
        /\ pc = "done"
        /\ raised = None
        /\ reports = << FailReport(RetrieveMsg(namespace,
                                               requests[1].error)) >>

\* C17: after a patch call failed no further client call is issued, and
\* the invocation has ended in one fail_json that names the
\* TemplateInstance and the error, without any exit_json.
C17_FirstPatchFailureAborts ==
    \A k \in 1..Len(requests) :
        (requests[k].op = "patch" /\ requests[k].error # None) =>
            /\ k = Len(requests)
            /\ pc = "done"
            /\ raised = None
            /\ reports = << FailReport(MigrateMsg(requests[k].name,
                                                  requests[k].error)) >>

\* the first of two patches failed and the second was not issued
C17_Witness ==
    /\ pc = "done"
    /\ Len(ti_to_be_migrated) = 2
    /\ Len(PatchRequests) = 1
    /\ PatchRequests[1].error # None
    /\ Len(reports) = 1
    /\ reports[1].call = "fail_json"

C23_CallOrdering ==
    /\ Cardinality({ j \in 1..Len(requests) : requests[j].op = "get" })
           = IF pc = "start" THEN 0 ELSE 1
    /\ Len(requests) >= 1 => requests[1].op = "get"
    /\ Len(calls) >= 1 =>
           /\ Len(calls) = 1
           /\ FetchOk
           /\ calls[1].pre = InputDict(requests[1].returned, TRUE)
    /\ Len(PatchRequests) >= 1 =>
           /\ Len(calls) = 1
           /\ calls[1].err = NoError
           /\ templateinstances = calls[1].post
           /\ Len(PatchRequests) <= Len(calls[1].ti_to_be_migrated)
    /\ \A j \in 1..Len(PatchRequests) :
           /\ PatchRequests[j].name = calls[1].ti_to_be_migrated[j]
           /\ j < Len(PatchRequests) => PatchRequests[j].error = None

\* two patch calls were issued, the second after the first returned
C23_Witness ==
    /\ Len(requests) = 3
    /\ requests[1].op = "get"
    /\ Len(PatchRequests) = 2
    /\ PatchRequests[1].error = None
    /\ Len(calls) = 1

\* C24: when the k-th patch call fails, the k-1 patches before it stay
\* applied in the cluster, the k-1 responses gathered so far are in no
\* report, and the one report is a fail_json without any record.
C24_NoRollback ==
    \A k \in 1..Len(PatchRequests) :
        PatchRequests[k].error # None =>
            /\ \A j \in 1..(k - 1) :
                   /\ PatchRequests[j].error = None
                   /\ cluster[PatchRequests[j].name].status
                          = PatchRequests[j].body.status
                   /\ cluster[PatchRequests[j].name]
                          # requests[1].returned[PatchRequests[j].name]
            /\ Len(results.result) = k - 1
            /\ Len(reports) = 1
            /\ reports[1].call = "fail_json"
            /\ reports[1].result = << >>
            /\ ~reports[1].changed

\* the second patch failed after the first had been applied
C24_Witness ==
    /\ Len(PatchRequests) = 2
    /\ PatchRequests[1].error = None
    /\ PatchRequests[2].error # None
    /\ PatchRequests[1].name # PatchRequests[2].name
    /\ Len(results.result) = 1
    /\ cluster[PatchRequests[1].name]
           # requests[1].returned[PatchRequests[1].name]

\* C27: the body of every patch call is the record as perform_migrations
\* left it, and holds no reference of a mapped kind with a non-canonical or
\* absent apiVersion, also when the record has several stale references
\* and is in the returned list more than once.
C27_PatchBodiesMigrated ==
    \A j \in 1..Len(PatchRequests) :
        /\ StalePositions(PatchRequests[j].body) = {}
        /\ PatchRequests[j].body
               = TiList(calls[1].post)[PatchRequests[j].name]

\* the first patch of a record that had two stale references and is twice
\* in the returned list
C27_Witness ==
    /\ Len(PatchRequests) >= 1
    /\ Occurrences(ti_to_be_migrated, PatchRequests[1].name) = 2
    /\ Cardinality(StalePositions(
           requests[1].returned[PatchRequests[1].name])) = 2
    /\ StalePositions(PatchRequests[1].body) = {}

(* ---------------- properties of consecutive runs ---------------- *)
\* the runs against the cluster so far, the one under way last
Runs == Append(history, ThisRun)

\* the run ended in one exit_json and nothing else
RunSucceeded(r) ==
    /\ r.pc = "done"
    /\ r.raised = None
    /\ Len(r.reports) = 1
    /\ r.reports[1].call = "exit_json"

\* the run's fetch returned
RunFetched(r) ==
    /\ Len(r.requests) >= 1
    /\ r.requests[1].op = "get"
    /\ r.requests[1].error = None

\* C28: after a run without namespace and without check mode that ended
\* in exit_json, the next run against the same cluster issues no patch
\* call and, once its fetch has returned and it has ended, has reported
\* changed=false with an empty result and nothing else; after a check-mode
\* run without namespace that ended in exit_json, a next such run reports
\* what the first reported.
C28_Convergence ==
    \A h \in 1..(Len(Runs) - 1) :
        LET prev == Runs[h]
            cur == Runs[h + 1]
        IN  /\ (/\ prev.namespace = None
                /\ ~prev.check_mode
                /\ RunSucceeded(prev)) =>
                   /\ Len(SelectSeq(cur.requests, IsPatch)) = 0
                   /\ (cur.pc = "done" /\ RunFetched(cur)) =>
                          /\ cur.raised = None
                          /\ cur.reports = << ExitReport(FALSE, << >>) >>
            /\ (/\ prev.namespace = None
                /\ prev.check_mode
                /\ RunSucceeded(prev)
                /\ cur.namespace = None
                /\ cur.check_mode
                /\ cur.pc = "done"
                /\ RunFetched(cur)) =>
                   /\ cur.raised = None
                   /\ cur.reports = prev.reports

\* a run that patched and reported changed=true, followed by a run that
\* fetched the patched records and reported changed=false
C28_Witness ==
    /\ Len(history) = 1
    /\ history[1].namespace = None
    /\ ~history[1].check_mode
    /\ RunSucceeded(history[1])
    /\ history[1].reports[1].changed
    /\ Len(SelectSeq(history[1].requests, IsPatch)) > 0
    /\ namespace = None
    /\ ~check_mode
    /\ Len(calls) = 1
    /\ Len(cluster) > 0
    /\ reports = << ExitReport(FALSE, << >>) >>

\* C29 as stated: an invocation that has ended has made exactly one
\* report, an exit_json or a fail_json, and no exception has left it.
C29_ExactlyOneReport ==
    pc = "done" =>
        /\ raised = None
        /\ Len(reports) = 1
        /\ reports[1].call \in {"exit_json", "fail_json"}

(* ---------------- properties of openshift_build ---------------- *)
\* C20: of build_name and build_config_name exactly one is accepted: a
\* parameter set with both is rejected as mutually exclusive, one with
\* neither is rejected (as lacking one of the two, when nothing else is
\* missing), and an accepted set has exactly one of them.
C20_ExactlyOneBuildSource ==
    verdict \notin {"idle", "pending"} =>
        /\ {"build_name", "build_config_name"} \subseteq params
               => verdict = "mutually_exclusive"
        /\ {"build_name", "build_config_name"} \cap params = {}
               => /\ verdict # "accepted"
                  /\ "namespace" \in params => verdict = "required_one_of"
        /\ verdict = "accepted"
               => Cardinality({"build_name", "build_config_name"}
                                  \cap params) = 1

\* a parameter set with namespace and neither name, checked and rejected
C20_Witness ==
    /\ verdict = "required_one_of"
    /\ "namespace" \in params
    /\ {"build_name", "build_config_name"} \cap params = {}

\* C21: openshift_process rejects, by the constraints main() declares, every
\* parameter set that gives name together with resource_definition or src,
\* and every parameter set that gives name without namespace.
C21_NameConstraintsDeclared ==
    verdict # "pending" =>
        /\ ("name" \in params
                /\ params \cap {"resource_definition", "src"} # {})
              => verdict = "mutually_exclusive"
        /\ ("name" \in params /\ "namespace" \notin params)
              => verdict # "accepted"

====
